---- MODULE Spec2Model ----
(***************************************************************************)
(* Model of eth-passphrase-backup (src/src/lib.rs): the mnemonic codec     *)
(* (Passphrase::from_words / from_bytes / to_bytes / get_words), and the   *)
(* two orchestrating functions get_share and restore_from_share, together  *)
(* with the two libraries they call: sha2::Sha256 and sharks (Shamir       *)
(* secret sharing over GF(2^8)).                                           *)
(***************************************************************************)
EXTENDS Integers, Sequences, FiniteSets, TLC

\* A Vec built element by element: the sequence with every element computed.
Collect(f) == f \o <<>>

(***************************************************************************)
(* Bit operations on machine integers.  TLC has no bitwise operators, so   *)
(* xor and and are computed bit by bit on bytes and tabulated once.        *)
(***************************************************************************)
RECURSIVE XorBits(_, _)
XorBits(a, b) ==
    IF a = 0 /\ b = 0 THEN 0
    ELSE (((a % 2) + (b % 2)) % 2) + 2 * XorBits(a \div 2, b \div 2)

RECURSIVE AndBits(_, _)
AndBits(a, b) ==
    IF a = 0 \/ b = 0 THEN 0
    ELSE ((a % 2) * (b % 2)) + 2 * AndBits(a \div 2, b \div 2)

XorTab == [a \in 0..255 |-> [b \in 0..255 |-> XorBits(a, b)]]

AndTab == [a \in 0..255 |-> [b \in 0..255 |-> AndBits(a, b)]]

Pow2 == [n \in 0..16 |-> 2^n]

(***************************************************************************)
(* sha2::Sha256 (FIPS 180-4) on a message of at most 55 bytes, which fits  *)
(* one 512-bit block; every buffer the codec hashes is 16..34 bytes long.  *)
(* A 32-bit word is the pair <<high 16 bits, low 16 bits>>.                *)
(***************************************************************************)
Xor16(x, y) == XorTab[x \div 256][y \div 256] * 256 + XorTab[x % 256][y % 256]

And16(x, y) == AndTab[x \div 256][y \div 256] * 256 + AndTab[x % 256][y % 256]

Xor32(a, b) == <<Xor16(a[1], b[1]), Xor16(a[2], b[2])>>

And32(a, b) == <<And16(a[1], b[1]), And16(a[2], b[2])>>

Not32(a) == <<65535 - a[1], 65535 - a[2]>>

Add32(a, b) ==
    LET lo == a[2] + b[2]
    IN  <<(a[1] + b[1] + (lo \div 65536)) % 65536, lo % 65536>>

Rotr32(a, n) ==
    LET x == IF n >= 16 THEN <<a[2], a[1]>> ELSE a
        m == n % 16
    IN  <<(x[1] \div Pow2[m]) + (x[2] % Pow2[m]) * Pow2[16 - m],
          (x[2] \div Pow2[m]) + (x[1] % Pow2[m]) * Pow2[16 - m]>>

Shr32(a, n) ==
    <<a[1] \div Pow2[n], (a[2] \div Pow2[n]) + (a[1] % Pow2[n]) * Pow2[16 - n]>>

ShaK ==
    <<
       <<17034, 12184>>, <<28983, 17553>>, <<46528, 64463>>, <<59829, 56229>>,
       <<14678, 49755>>, <<23025, 4593>>, <<37439, 33444>>, <<43804, 24277>>,
       <<55303, 43672>>, <<4739, 23297>>, <<9265, 34238>>, <<21772, 32195>>,
       <<29374, 23924>>, <<32990, 45566>>, <<39900, 1703>>, <<49563, 61812>>,
       <<58523, 27073>>, <<61374, 18310>>, <<4033, 40390>>, <<9228, 41420>>,
       <<11753, 11375>>, <<19060, 33962>>, <<23728, 43484>>, <<30457, 35034>>,
       <<38974, 20818>>, <<43057, 50797>>, <<45059, 10184>>, <<48985, 32711>>,
       <<50912, 3059>>, <<54695, 37191>>, <<1738, 25425>>, <<5161, 10599>>,
       <<10167, 2693>>, <<11803, 8504>>, <<19756, 28156>>, <<21304, 3347>>,
       <<25866, 29524>>, <<30314, 2747>>, <<33218, 51502>>, <<37490, 11397>>,
       <<41663, 59553>>, <<43034, 26187>>, <<49739, 35696>>, <<51052, 20899>>,
       <<53650, 59417>>, <<54937, 1572>>, <<62478, 13701>>, <<4202, 41072>>,
       <<6564, 49430>>, <<7735, 27656>>, <<10056, 30540>>, <<13488, 48309>>,
       <<14620, 3251>>, <<20184, 43594>>, <<23452, 51791>>, <<26670, 28659>>,
       <<29839, 33518>>, <<30885, 25455>>, <<33992, 30740>>, <<36039, 520>>,
       <<37054, 65530>>, <<42064, 27883>>, <<48889, 41975>>, <<50801, 30962>>
    >>

ShaH0 ==
    <<
       <<27145, 58983>>, <<47975, 44677>>, <<15470, 62322>>, <<42319, 62778>>,
       <<20750, 21119>>, <<39685, 26764>>, <<8067, 55723>>, <<23520, 52505>>
    >>

ShaPad(bytes) ==
    bytes \o <<128>> \o [i \in 1..(55 - Len(bytes)) |-> 0]
          \o <<0, 0, 0, 0, 0, 0, (8 * Len(bytes)) \div 256, (8 * Len(bytes)) % 256>>

ShaBlockWords(blk) ==
    Collect([i \in 1..16 |-> <<blk[4 * i - 3] * 256 + blk[4 * i - 2],
                               blk[4 * i - 1] * 256 + blk[4 * i]>>])

SmallSigma0(x) == Xor32(Xor32(Rotr32(x, 7), Rotr32(x, 18)), Shr32(x, 3))

SmallSigma1(x) == Xor32(Xor32(Rotr32(x, 17), Rotr32(x, 19)), Shr32(x, 10))

BigSigma0(x) == Xor32(Xor32(Rotr32(x, 2), Rotr32(x, 13)), Rotr32(x, 22))

BigSigma1(x) == Xor32(Xor32(Rotr32(x, 6), Rotr32(x, 11)), Rotr32(x, 25))

ShaCh(x, y, z) == Xor32(And32(x, y), And32(Not32(x), z))

ShaMaj(x, y, z) == Xor32(Xor32(And32(x, y), And32(x, z)), And32(y, z))

\* The message schedule extended by one word.
ShaExtend(w) ==
    LET t == Len(w) + 1
    IN  Append(w, Add32(Add32(SmallSigma1(w[t - 2]), w[t - 7]),
                        Add32(SmallSigma0(w[t - 15]), w[t - 16])))

\* The message schedule extended by cnt words (by halves, which keeps the
\* evaluation shallow).
RECURSIVE ShaSchedule(_, _)
ShaSchedule(w, cnt) ==
    IF cnt = 1 THEN ShaExtend(w)
    ELSE LET half == ShaSchedule(w, cnt \div 2)
         IN  IF Len(half) > 0 THEN ShaSchedule(half, cnt - (cnt \div 2)) ELSE half

\* Round t of the compression function on the working variables a..h.
ShaRound(s, w, t) ==
    LET t1 == Add32(Add32(Add32(s[8], BigSigma1(s[5])),
                          Add32(ShaCh(s[5], s[6], s[7]), ShaK[t])), w[t])
        t2 == Add32(BigSigma0(s[1]), ShaMaj(s[1], s[2], s[3]))
    IN  <<Add32(t1, t2), s[1], s[2], s[3], Add32(s[4], t1), s[5], s[6], s[7]>>

\* Rounds lo..hi in order (by halves).
RECURSIVE ShaRounds(_, _, _, _)
ShaRounds(s, w, lo, hi) ==
    IF lo = hi THEN ShaRound(s, w, lo)
    ELSE LET mid == (lo + hi) \div 2
             half == ShaRounds(s, w, lo, mid)
         IN  IF Len(half) = 8 THEN ShaRounds(half, w, mid + 1, hi) ELSE half

\* The digest as eight 32-bit words.
Sha256(bytes) ==
    LET w == ShaSchedule(ShaBlockWords(ShaPad(bytes)), 48)
        s == ShaRounds(ShaH0, w, 1, 64)
    IN  [i \in 1..8 |-> Add32(ShaH0[i], s[i])]

\* result[0] and result[1] of the digest, as the 16-bit number they spell.
ShaFirst16(bytes) == Sha256(bytes)[1][1]

(***************************************************************************)
(* Result<T, E>: Ok(v) or Err(e).  An error is the sequence of the enum     *)
(* variants that wrap it, outermost first.                                 *)
(***************************************************************************)
Ok(v) == [tag |-> "Ok", val |-> v, err |-> <<>>]

Err(e) == [tag |-> "Err", val |-> <<>>, err |-> e]

IsOk(r) == r.tag = "Ok"

\* impl From<PassphaseErr> for PassphaseManageErr, applied by the ? operator.
FromPassphaseErr(r) == IF IsOk(r) THEN r ELSE Err(<<"PassphaseErr">> \o r.err)

(***************************************************************************)
(* WordList: the lines of worldlist.txt.  The file holds 2048 distinct     *)
(* words; the word on line k (from 0) is written 10000 + k here, and every *)
(* other value is a word that is not in the list.                          *)
(***************************************************************************)
DictSize == 2048

WordListWords == [k \in 1..DictSize |-> 10000 + (k - 1)]

\* self.words[i.0 as usize]
get_word(i) == WordListWords[i + 1]

\* The position (from 0) of every word of the list, found by searching the
\* list once per word; the words are distinct, so the match is the first one.
WordPosition ==
    [w \in {WordListWords[k] : k \in 1..Len(WordListWords)} |->
        (CHOOSE k \in 1..Len(WordListWords) : WordListWords[k] = w) - 1]

\* self.words.iter().position(|&w| w == word).map(|s| WordIndex(s as u16))
get_index(word) ==
    IF word \in DOMAIN WordPosition
    THEN [tag |-> "Some", val |-> WordPosition[word]]
    ELSE [tag |-> "None", val |-> 0]

(***************************************************************************)
(* Strings of binary digits, as sequences of 0 and 1.                      *)
(***************************************************************************)
RECURSIVE BinDigits(_)
BinDigits(v) == IF v < 2 THEN <<v>> ELSE Append(BinDigits(v \div 2), v % 2)

\* format!("{:0<width>b}", v): at least width digits, zero-padded on the left.
FormatBin(v, width) ==
    LET d == BinDigits(v)
    IN  IF Len(d) >= width THEN d ELSE [i \in 1..(width - Len(d)) |-> 0] \o d

\* from_str_radix(bits, 2)
RECURSIVE FromStrRadix2(_)
FromStrRadix2(bits) ==
    IF Len(bits) = 0 THEN 0
    ELSE 2 * FromStrRadix2(SubSeq(bits, 1, Len(bits) - 1)) + bits[Len(bits)]

\* push_str of format!("{:0<width>b}", v) for every v of vals, in order.
RECURSIVE PushBits(_, _)
PushBits(vals, width) ==
    IF Len(vals) = 0 THEN <<>>
    ELSE IF Len(vals) = 1 THEN FormatBin(vals[1], width)
    ELSE LET h == Len(vals) \div 2
         IN  PushBits(SubSeq(vals, 1, h), width)
                \o PushBits(SubSeq(vals, h + 1, Len(vals)), width)

\* The loop "while end <= len { parse s[begin..end]; begin += w; end += w }".
ParseGroups(bits, w) ==
    Collect([k \in 1..(Len(bits) \div w) |->
                FromStrRadix2(SubSeq(bits, w * (k - 1) + 1, w * k))])

(***************************************************************************)
(* Passphrase: word_indexs and checksum_size (the wordlist field is the    *)
(* same WordList in every value).                                          *)
(***************************************************************************)
\* ValidNumOfWord with the count checked against a range.
ValidNumOfWordRange(len) == len >= 12 /\ len <= 25

ValidNumOfWord(len) == len = 12 \/ len = 13 \/ len = 24 \/ len = 25

WordsChecksumSize(len) ==
    CASE len = 12 -> 4
      [] len = 13 -> 7
      [] len = 24 -> 8
      [] len = 25 -> 11
      [] OTHER -> 0

\* ValidNumOfBytes with the length checked against a range.
ValidNumOfBytesRange(len) == len >= 15 /\ len <= 34

ValidNumOfBytes(len) == len = 16 \/ len = 17 \/ len = 32 \/ len = 33

\* BytesChecksumSize with the arms of 17 and 32 bytes exchanged.
BytesChecksumSizeSwapped(len) ==
    CASE len = 16 -> 4
      [] len = 17 -> 8
      [] len = 32 -> 7
      [] len = 33 -> 11
      [] OTHER -> 0

BytesChecksumSize(len) ==
    CASE len = 16 -> 4
      [] len = 17 -> 7
      [] len = 32 -> 8
      [] len = 33 -> 11
      [] OTHER -> 0

from_words(words) ==
    LET len == Len(words)
    IN  IF ~ValidNumOfWord(len) THEN Err(<<"InvalidNumOfWord">>)
        ELSE IF \E i \in 1..len : get_index(words[i]).tag = "None"
             THEN Err(<<"InvalidWord">>)
             ELSE Ok([word_indexs |-> Collect([i \in 1..len |-> get_index(words[i]).val]),
                      checksum_size |-> WordsChecksumSize(len)])

\* &format!("{:08b}{:08b}", result[0], result[1])[..checksum_size]
ChecksumBits(bytes, checksum_size) ==
    SubSeq(FormatBin(ShaFirst16(bytes), 16), 1, checksum_size)

from_bytes(bytes) ==
    IF ~ValidNumOfBytes(Len(bytes)) THEN Err(<<"Unexpected">>)
    ELSE LET checksum_size == BytesChecksumSize(Len(bytes))
             full_bits_str == PushBits(bytes, 8) \o ChecksumBits(bytes, checksum_size)
         IN  Ok([word_indexs |-> ParseGroups(full_bits_str, 11),
                 checksum_size |-> checksum_size])

\* StripChecksum cutting the leading bits instead of the trailing ones.
StripChecksumLeading(bit_str, checksum_size) ==
    SubSeq(bit_str, checksum_size + 1, Len(bit_str))

\* &bit_str[..(bit_len - self.checksum_size)]
StripChecksum(bit_str, checksum_size) == SubSeq(bit_str, 1, Len(bit_str) - checksum_size)

to_bytes(p) ==
    Ok(ParseGroups(StripChecksum(PushBits(p.word_indexs, 11), p.checksum_size), 8))

get_words(p) == Ok(Collect([i \in 1..Len(p.word_indexs) |-> get_word(p.word_indexs[i])]))

(***************************************************************************)
(* sharks: GF(2^8) arithmetic.  The crate multiplies and divides through   *)
(* logarithm tables of the field with reduction polynomial                 *)
(* x^8 + x^4 + x^3 + x^2 + 1; the same products are computed here by       *)
(* shift-and-add and tabulated.  Addition and subtraction are xor.         *)
(***************************************************************************)
GFAdd(a, b) == XorTab[a][b]

GFTimesX(a) == IF a >= 128 THEN XorTab[(2 * a) % 256][29] ELSE 2 * a

RECURSIVE GFMulBits(_, _)
GFMulBits(a, b) ==
    IF b = 0 THEN 0
    ELSE XorTab[IF b % 2 = 1 THEN a ELSE 0][GFMulBits(GFTimesX(a), b \div 2)]

GFMulTab == [a \in 0..255 |-> [b \in 0..255 |-> GFMulBits(a, b)]]

GFInvTab == [b \in 1..255 |-> CHOOSE c \in 1..255 : GFMulTab[b][c] = 1]

GFMul(a, b) == GFMulTab[a][b]

\* Division by a nonzero element (interpolate never divides by zero: it
\* skips the pairs with equal x).
GFDiv(a, b) == GFMulTab[a][GFInvTab[b]]

\* Iterator::sum and Iterator::product over GF256 (both operations are
\* associative, so the sequence is folded by halves).
RECURSIVE GFSum(_)
GFSum(vals) ==
    IF Len(vals) = 0 THEN 0
    ELSE IF Len(vals) = 1 THEN vals[1]
    ELSE LET h == Len(vals) \div 2
         IN  GFAdd(GFSum(SubSeq(vals, 1, h)), GFSum(SubSeq(vals, h + 1, Len(vals))))

RECURSIVE GFProduct(_)
GFProduct(vals) ==
    IF Len(vals) = 0 THEN 1
    ELSE IF Len(vals) = 1 THEN vals[1]
    ELSE LET h == Len(vals) \div 2
         IN  GFMul(GFProduct(SubSeq(vals, 1, h)), GFProduct(SubSeq(vals, h + 1, Len(vals))))

(***************************************************************************)
(* sharks: dealing.  random_polynomial draws the k-1 higher coefficients   *)
(* of each byte's polynomial from Uniform::new_inclusive(1, 255) and puts  *)
(* the secret byte last; get_evaluator evaluates every polynomial at       *)
(* x = 1, 2, ..., 255 by Horner's rule.                                    *)
(***************************************************************************)
CoefMin == 1

CoefMax == 255

\* The values one random coefficient can take.
CoefRange == CoefMin..CoefMax

\* coefs: the k-1 values drawn for this byte.
random_polynomial(s, coefs) == coefs \o <<s>>

\* EvalPoly with the fold multiplying the coefficient instead of the
\* accumulator.
RECURSIVE EvalPolyCoefTimesX(_, _)
EvalPolyCoefTimesX(poly, x) ==
    IF Len(poly) = 0 THEN 0
    ELSE GFAdd(EvalPolyCoefTimesX(SubSeq(poly, 1, Len(poly) - 1), x),
               GFMul(poly[Len(poly)], x))

\* p.iter().fold(GF256(0), |acc, c| acc * x + c)
RECURSIVE EvalPoly(_, _)
EvalPoly(poly, x) ==
    IF Len(poly) = 0 THEN 0
    ELSE GFAdd(GFMul(EvalPoly(SubSeq(poly, 1, Len(poly) - 1), x), x), poly[Len(poly)])

\* The share get_evaluator yields for x.
EvalShare(polys, x) ==
    [x |-> x, y |-> Collect([i \in 1..Len(polys) |-> EvalPoly(polys[i], x)])]

\* How many shares dealer.take(n) collects: the iterator ends after x = 255.
TakeCount(n) == IF n < 255 THEN n ELSE 255

\* sharks.dealer(&key).take(n).collect(); rnd[i] holds the coefficients
\* drawn for byte i of the secret.
dealer_take(secret, rnd, n) ==
    LET polys == Collect([i \in 1..Len(secret) |-> random_polynomial(secret[i], rnd[i])])
    IN  Collect([x \in 1..TakeCount(n) |-> EvalShare(polys, x)])

\* share_to_bytes without the identifier byte.
share_to_bytes_no_x(share) == share.y

\* Vec::from(&share)
share_to_bytes(share) == <<share.x>> \o share.y

\* Share::try_from(bytes)
share_try_from(bytes) ==
    IF Len(bytes) < 2 THEN Err(<<"ParseByteToShareErr">>)
    ELSE Ok([x |-> bytes[1], y |-> SubSeq(bytes, 2, Len(bytes))])

(***************************************************************************)
(* sharks: recovery.  recover(k, shares) rejects shares of different       *)
(* lengths and fewer than k distinct x, and otherwise interpolates at 0    *)
(* over all the shares it was given.                                       *)
(***************************************************************************)
\* LagrangeAtZero with x_i in the numerator.
LagrangeAtZeroOwnX(shares, i) ==
    GFProduct(Collect([j \in 1..Len(shares) |->
        IF shares[j].x # shares[i].x
        THEN GFDiv(shares[i].x, GFAdd(shares[j].x, shares[i].x))
        ELSE 1]))

\* The Lagrange basis value at 0 of share i: the product over the shares j
\* with another x of x_j / (x_j - x_i) (a filtered-out share contributes the
\* factor 1).
LagrangeAtZero(shares, i) ==
    GFProduct(Collect([j \in 1..Len(shares) |->
        IF shares[j].x # shares[i].x
        THEN GFDiv(shares[j].x, GFAdd(shares[j].x, shares[i].x))
        ELSE 1]))

interpolate(shares) ==
    LET basis == Collect([i \in 1..Len(shares) |-> LagrangeAtZero(shares, i)])
    IN  Collect([s \in 1..Len(shares[1].y) |->
            GFSum(Collect([i \in 1..Len(shares) |-> GFMul(basis[i], shares[i].y[s])]))])

SameLength(shares) == \A i \in 1..Len(shares) : Len(shares[i].y) = Len(shares[1].y)

ShareKeys(shares) == {shares[i].x : i \in 1..Len(shares)}

EnoughKeys(keys, k) == ~(keys = {} \/ Cardinality(keys) < k)

recover(k, shares) ==
    IF ~SameLength(shares)
    THEN Err(<<"RecoverFromSharesErr", "All shares must have the same length">>)
    ELSE IF ~EnoughKeys(ShareKeys(shares), k)
         THEN Err(<<"RecoverFromSharesErr", "Not enough shares to recover original secret">>)
         ELSE Ok(interpolate(shares))

(***************************************************************************)
(* get_share and restore_from_share.                                       *)
(***************************************************************************)
\* The index of the first error of a sequence of results, 0 when none.
FirstErr(rs) ==
    IF \A i \in 1..Len(rs) : IsOk(rs[i]) THEN 0
    ELSE CHOOSE i \in 1..Len(rs) : ~IsOk(rs[i]) /\ \A j \in 1..(i - 1) : IsOk(rs[j])

\* ShareNumCheck with a strict comparison.
ShareNumCheckStrict(n, t) == n < t

\* num_shares_to_create <= required_num_shares_to_recover
ShareNumCheck(n, t) == n <= t

\* The Vec<Passphrase> built by the first loop: from_bytes of every share.
SharePassphrases(passphrase, n, rnd) ==
    LET key == to_bytes(passphrase).val
        shares == dealer_take(key, rnd, n)
    IN  Collect([i \in 1..Len(shares) |-> from_bytes(share_to_bytes(shares[i]))])

get_share(passphrase, n, t, rnd) ==
    IF ShareNumCheck(n, t) THEN Err(<<"ShareNumErr">>)
    ELSE LET share_passphrases == SharePassphrases(passphrase, n, rnd)
             bad == FirstErr(share_passphrases)
         IN  IF bad # 0 THEN FromPassphaseErr(share_passphrases[bad])
             ELSE Ok(Collect([i \in 1..Len(share_passphrases) |->
                                get_words(share_passphrases[i].val).val]))

\* One pass of the loop of restore_from_share: words to Share.
WordsToShare(share_words) ==
    LET p == from_words(share_words)
    IN  IF ~IsOk(p) THEN FromPassphaseErr(p)
        ELSE share_try_from(to_bytes(p.val).val)

\* num_share as u8
AsU8(v) == v % 256

restore_from_share(shares_words) ==
    LET num_share == Len(shares_words)
        parsed == Collect([i \in 1..num_share |-> WordsToShare(shares_words[i])])
        bad == FirstErr(parsed)
    IN  IF bad # 0 THEN parsed[bad]
        ELSE LET secret == recover(AsU8(num_share),
                                   Collect([i \in 1..num_share |-> parsed[i].val]))
             IN  IF ~IsOk(secret) THEN secret
                 ELSE FromPassphaseErr(from_bytes(secret.val))

(***************************************************************************)
(* The inputs the callers supply.                                          *)
(***************************************************************************)
\* The largest share count and threshold a caller asks for.
MaxShares == 3

\* The byte buffer of the given length whose bytes step by a from a.
Pattern(len, a) == Collect([i \in 1..len |-> (a * i + a) % 256])

\* Buffers handed to Passphrase::from_bytes: the two buffers of the crate's
\* tests, and buffers of every accepted length and of lengths next to them.
ByteInputs ==
    { <<100, 72, 87, 76, 8, 85, 150, 160, 159, 27, 92, 21, 132, 169, 203, 241>>,
      <<1, 183, 180, 71, 252, 59, 157, 245, 255, 133, 251, 209, 19, 57, 84, 195, 246>>,
      Pattern(16, 0), Pattern(32, 77), Pattern(33, 5),
      Pattern(0, 0), Pattern(15, 3), Pattern(18, 9), Pattern(31, 11), Pattern(34, 13) }

\* len words, the k-th being line (a * k) mod 2048 of the list.
WordPattern(len, a) == Collect([k \in 1..len |-> get_word((a * k) % DictSize)])

\* w with its k-th word replaced by a word that is not in the list.
WithBadWord(w, k) == [w EXCEPT ![k] = 0]

\* Word sequences handed to Passphrase::from_words by a caller: the word on
\* line 0 twelve and twenty-four times (the checksum bits of the last word are
\* then not the ones from_bytes computes), sequences of every accepted count,
\* of counts next to them, and sequences holding an unknown word.
WordInputs ==
    { WordPattern(12, 0), WordPattern(24, 0),
      WordPattern(12, 331), WordPattern(13, 97), WordPattern(25, 1201),
      WordPattern(0, 1), WordPattern(11, 5), WordPattern(14, 7),
      WordPattern(23, 9), WordPattern(26, 11),
      WithBadWord(WordPattern(12, 331), 1), WithBadWord(WordPattern(12, 331), 12),
      WithBadWord(WordPattern(25, 1201), 13), WithBadWord(WordPattern(11, 5), 4),
      WithBadWord(WordPattern(26, 11), 26) }

\* The outcomes of the random source the model follows: for seed sd, the
\* coefficient drawn for byte i and degree j of a threshold-k dealing.
Seeds == {3, 200}

RandomCoefs(sd, len, k) ==
    [i \in 1..len |->
        [j \in 1..(k - 1) |-> CoefMin + ((sd + 11 * i + 101 * j) % (CoefMax - CoefMin + 1))]]

\* A share sequence from another dealing, of the other length.
ForeignShare(own) == IF Len(own) = 13 THEN WordPattern(25, 1201) ELSE WordPattern(13, 97)

\* The sequences drawn from s whose positions are the members of idx, in
\* increasing and in decreasing order.
Ascending(s, idx) ==
    LET RECURSIVE Pick(_, _)
        Pick(k, acc) ==
            IF k > Len(s) THEN acc
            ELSE Pick(k + 1, IF k \in idx THEN Append(acc, s[k]) ELSE acc)
    IN  Pick(1, <<>>)

Reverse(s) == [i \in 1..Len(s) |-> s[Len(s) + 1 - i]]

\* The share lists handed to restore_from_share after a dealing: every
\* nonempty subset of the shares in both orders, lists with a repeated share,
\* a list mixing in a share of the other length, and the empty list.
ShareSelections(sh) ==
    LET subsets == {Ascending(sh, idx) : idx \in (SUBSET (1..Len(sh))) \ {{}}}
    IN  subsets \cup {Reverse(x) : x \in subsets}
          \cup {<<sh[1], sh[1]>>, <<sh[1], sh[Len(sh)], sh[1]>>}
          \cup {<<sh[1], ForeignShare(sh[1])>>, <<ForeignShare(sh[1]), sh[Len(sh)]>>}
          \cup {<<>>}

\* Lists longer than a u8 can count: the shares repeated in turn up to the
\* given length.
LongLengths == {256, 257}

Repeated(sh, len) == Collect([i \in 1..len |-> sh[1 + ((i - 1) % Len(sh))]])

(***************************************************************************)
(* State: the arguments and results of the calls made so far, and the      *)
(* locals of get_share and restore_from_share that the properties name.    *)
(***************************************************************************)
VARIABLES
    pc,                \* the last call made
    bytes,             \* argument of from_bytes (<<>> when the words came from a caller)
    words,             \* argument of from_words
    passphrase,        \* result of from_bytes or from_words
    key,               \* passphrase.to_bytes()
    num_shares_to_create,
    required_num_shares_to_recover,
    share_passphrases, \* get_share: the Vec<Passphrase> of the shares
    shares,            \* result of get_share
    shares_words,      \* argument of restore_from_share
    restore_shares,    \* restore_from_share: the Vec<Share> parsed from the words
    restored,          \* result of restore_from_share
    restored_key,      \* restored.to_bytes()
    restored_words     \* restored.get_words()

vars == <<pc, bytes, words, passphrase, key, num_shares_to_create,
          required_num_shares_to_recover, share_passphrases, shares, shares_words,
          restore_shares, restored, restored_key, restored_words>>

\* A result no call has produced yet.
NotCalled == [tag |-> "None", val |-> <<>>, err |-> <<>>]

Init ==
    /\ pc = "start"
    /\ bytes = <<>>
    /\ words = <<>>
    /\ passphrase = NotCalled
    /\ key = NotCalled
    /\ num_shares_to_create = 0
    /\ required_num_shares_to_recover = 0
    /\ share_passphrases = <<>>
    /\ shares = NotCalled
    /\ shares_words = <<>>
    /\ restore_shares = NotCalled
    /\ restored = NotCalled
    /\ restored_key = NotCalled
    /\ restored_words = NotCalled

\* Passphrase::from_bytes(b)
FromBytes ==
    /\ pc = "start"
    /\ \E b \in ByteInputs :
        /\ bytes' = b
        /\ passphrase' = from_bytes(b)
    /\ pc' = "from_bytes"
    /\ UNCHANGED <<words, key, num_shares_to_create, required_num_shares_to_recover,
                   share_passphrases, shares, shares_words, restore_shares, restored,
                   restored_key, restored_words>>

\* passphrase.get_words(), on the passphrase built from bytes or on the
\* restored one.
GetWords ==
    \/ /\ pc = "from_bytes"
       /\ IsOk(passphrase)
       /\ words' = get_words(passphrase.val).val
       /\ pc' = "get_words"
       /\ UNCHANGED <<bytes, passphrase, key, num_shares_to_create,
                      required_num_shares_to_recover, share_passphrases, shares,
                      shares_words, restore_shares, restored, restored_key,
                      restored_words>>
    \/ /\ pc = "restore"
       /\ IsOk(restored)
       /\ restored_words' = get_words(restored.val)
       /\ pc' = "restored_get_words"
       /\ UNCHANGED <<bytes, words, passphrase, key, num_shares_to_create,
                      required_num_shares_to_recover, share_passphrases, shares,
                      shares_words, restore_shares, restored, restored_key>>

\* Passphrase::from_words(w), on a caller's words or on the words get_words
\* returned.
FromWords ==
    /\ \/ /\ pc = "start"
          /\ \E w \in WordInputs : words' = w
       \/ /\ pc = "get_words"
          /\ words' = words
    /\ passphrase' = from_words(words')
    /\ pc' = "from_words"
    /\ UNCHANGED <<bytes, key, num_shares_to_create, required_num_shares_to_recover,
                   share_passphrases, shares, shares_words, restore_shares, restored,
                   restored_key, restored_words>>

\* passphrase.to_bytes(), on the parsed passphrase or on the restored one.
ToBytes ==
    \/ /\ pc = "from_words"
       /\ IsOk(passphrase)
       /\ key' = to_bytes(passphrase.val)
       /\ pc' = "to_bytes"
       /\ UNCHANGED <<bytes, words, passphrase, num_shares_to_create,
                      required_num_shares_to_recover, share_passphrases, shares,
                      shares_words, restore_shares, restored, restored_key,
                      restored_words>>
    \/ /\ pc = "restore"
       /\ IsOk(restored)
       /\ restored_key' = to_bytes(restored.val)
       /\ pc' = "restored_to_bytes"
       /\ UNCHANGED <<bytes, words, passphrase, key, num_shares_to_create,
                      required_num_shares_to_recover, share_passphrases, shares,
                      shares_words, restore_shares, restored, restored_words>>

\* get_share(passphrase, n, t), with the random source following one of its
\* outcomes.
GetShare ==
    /\ pc = "from_words"
    /\ IsOk(passphrase)
    /\ \E n \in 0..MaxShares, t \in 0..MaxShares, sd \in Seeds :
        LET k == to_bytes(passphrase.val)
            rnd == RandomCoefs(sd, Len(k.val), t)
        IN  /\ num_shares_to_create' = n
            /\ required_num_shares_to_recover' = t
            /\ key' = IF ShareNumCheck(n, t) THEN key ELSE k
            /\ share_passphrases' =
                  IF ShareNumCheck(n, t) THEN <<>>
                  ELSE SharePassphrases(passphrase.val, n, rnd)
            /\ shares' = get_share(passphrase.val, n, t, rnd)
    /\ pc' = "get_share"
    /\ UNCHANGED <<bytes, words, passphrase, shares_words, restore_shares, restored,
                   restored_key, restored_words>>

\* The Vec<Share> the loop of restore_from_share has built when it ends.
ParsedShares(sw) ==
    LET parsed == Collect([i \in 1..Len(sw) |-> WordsToShare(sw[i])])
        bad == FirstErr(parsed)
    IN  IF bad # 0 THEN parsed[bad]
        ELSE Ok(Collect([i \in 1..Len(sw) |-> parsed[i].val]))

\* restore_from_share(sw)
RestoreCall(sw) ==
    /\ shares_words' = sw
    /\ restore_shares' = ParsedShares(sw)
    /\ restored' = restore_from_share(sw)
    /\ pc' = "restore"
    /\ UNCHANGED <<bytes, words, passphrase, key, num_shares_to_create,
                   required_num_shares_to_recover, share_passphrases, shares,
                   restored_key, restored_words>>

\* restore_from_share on shares that get_share returned, on the caller's own
\* word sequences, and on lists longer than 255.
Restore ==
    \/ /\ pc = "get_share"
       /\ IsOk(shares)
       /\ \E sw \in ShareSelections(shares.val) : RestoreCall(sw)
    \/ /\ pc = "from_words"
       /\ \E sw \in {<<words>>, <<words, WordPattern(Len(words), 331)>>,
                     <<WordPattern(12, 331), words, WordPattern(24, 0)>>} :
            RestoreCall(sw)
    \/ /\ pc = "get_share"
       /\ IsOk(shares)
       /\ \E len \in LongLengths : RestoreCall(Repeated(shares.val, len))

Next == FromBytes \/ GetWords \/ FromWords \/ ToBytes \/ GetShare \/ Restore

Spec == Init /\ [][Next]_vars

(***************************************************************************)
(* Properties.                                                             *)
(***************************************************************************)
\* The words of the word list, as a set.
DictionaryWords == {WordListWords[k] : k \in 1..Len(WordListWords)}

Range(f) == {f[i] : i \in DOMAIN f}

\* restore_from_share has been called.
RestoreCalled == pc \in {"restore", "restored_to_bytes", "restored_get_words"}

\* from_words has been called on words (passphrase is its result).
WordsParsed == pc \notin {"start", "from_bytes", "get_words"}

\* get_share has been called on the parsed passphrase.
ShareCalled == shares.tag # "None"

\* The argument of restore_from_share is a list of at least t different
\* shares that get_share returned for a 12- or 24-word passphrase with t >= 1,
\* in some order.
RestoredFromEnoughShares ==
    /\ RestoreCalled
    /\ IsOk(shares)
    /\ Len(words) \in {12, 24}
    /\ required_num_shares_to_recover >= 1
    /\ Len(shares_words) >= required_num_shares_to_recover
    /\ \A i \in 1..Len(shares_words) : shares_words[i] \in Range(shares.val)
    /\ \A i, j \in 1..Len(shares_words) : i # j => shares_words[i] # shares_words[j]

\* C10: every Passphrase built by from_words or from_bytes has 12, 13, 24 or
\* 25 words, the checksum size 4, 7, 8 or 11 that goes with the count, word
\* indexes below 2048, and 11 * count - checksum size equal to 8 times the
\* length of the buffer to_bytes returns, which is 16, 17, 32 or 33 bytes.
WellFormed(p) ==
    LET count == Len(p.word_indexs)
        b == to_bytes(p)
    IN  /\ count \in {12, 13, 24, 25}
        /\ p.checksum_size = (CASE count = 12 -> 4 [] count = 13 -> 7
                                [] count = 24 -> 8 [] count = 25 -> 11)
        /\ \A i \in 1..count : p.word_indexs[i] \in 0..2047
        /\ IsOk(b)
        /\ (11 * count - p.checksum_size) % 8 = 0
        /\ 11 * count - p.checksum_size = 8 * Len(b.val)
        /\ Len(b.val) \in {16, 17, 32, 33}
        /\ IsOk(get_words(p))

\* The Passphrase values the last call built.
BuiltByLastCall ==
    CASE pc \in {"from_bytes", "from_words"} ->
            IF IsOk(passphrase) THEN {passphrase.val} ELSE {}
      [] pc = "get_share" ->
            {share_passphrases[i].val :
                i \in {j \in 1..Len(share_passphrases) : IsOk(share_passphrases[j])}}
      [] pc = "restore" ->
            {from_words(w).val : w \in {v \in Range(shares_words) : IsOk(from_words(v))}}
                \cup (IF IsOk(restored) THEN {restored.val} ELSE {})
      [] OTHER -> {}

C10_PassphraseWellFormed == \A p \in BuiltByLastCall : WellFormed(p)

\* C1: restoring from at least t different shares of a 12- or 24-word
\* passphrase, in any order, succeeds and returns a passphrase with the
\* bytes of the original.
C1_EnoughSharesRestoreBytes ==
    RestoredFromEnoughShares =>
        /\ IsOk(restored)
        /\ pc = "restored_to_bytes" => restored_key = key

\* Three shares of a threshold-2 dealing, the last one first, restored to the
\* original bytes.
C1_Witness ==
    /\ RestoredFromEnoughShares
    /\ pc = "restored_to_bytes"
    /\ required_num_shares_to_recover = 2
    /\ Len(shares_words) = 3
    /\ shares_words[1] = shares.val[3]
    /\ restored_key = key

\* restore_from_share was given exactly t different shares of a 12- or
\* 24-word passphrase and get_words was called on its result.
RestoredWordsFromThreshold ==
    /\ RestoredFromEnoughShares
    /\ Len(shares_words) = required_num_shares_to_recover
    /\ pc = "restored_get_words"

\* C2 as stated: restoring from t shares returns exactly the words that were
\* split, for every accepted 12- or 24-word sequence.
C2_RestoreReturnsWords ==
    RestoredWordsFromThreshold => restored_words = Ok(words)

\* The checksum bits of words are the ones from_bytes computes for its bytes.
ChecksumIsComputedOne == IsOk(key) /\ from_bytes(key.val) = passphrase

\* C2 amended: restoring from t shares returns exactly the words that were
\* split when their checksum bits are the ones from_bytes computes.
C2_RestoreReturnsChecksummedWords ==
    (RestoredWordsFromThreshold /\ ChecksumIsComputedOne) =>
        restored_words = Ok(words)

\* Words with a computed checksum, split with threshold 2 and restored from
\* two shares.
C2_Witness ==
    /\ RestoredWordsFromThreshold
    /\ ChecksumIsComputedOne
    /\ required_num_shares_to_recover = 2
    /\ restored_words = Ok(words)

\* The values the shares with the identifiers ids can take at one byte of the
\* secret, over all draws of the k-1 random coefficients.
ShareValueTuples(s, k, ids) ==
    {[x \in ids |-> EvalPoly(random_polynomial(s, coefs), x)] :
        coefs \in [1..(k - 1) -> CoefRange]}

\* C3: for a dealing with threshold t >= 2, the values any t-1 shares can take
\* are the same for the dealt secret as for every other secret of its length.
C3_FewerSharesRevealNothing ==
    (pc = "get_share" /\ IsOk(shares) /\ required_num_shares_to_recover >= 2) =>
        \A ids \in {S \in SUBSET (1..num_shares_to_create) :
                        Cardinality(S) = required_num_shares_to_recover - 1} :
            \A other \in {b \in ByteInputs : Len(b) = Len(key.val)} :
                \A i \in 1..Len(key.val) :
                    ShareValueTuples(key.val[i], required_num_shares_to_recover, ids)
                        = ShareValueTuples(other[i], required_num_shares_to_recover, ids)

\* C4: a buffer of 16, 17, 32 or 33 bytes encoded by from_bytes, read as
\* words, parsed by from_words and decoded by to_bytes comes back unchanged.
C4_BytesRoundTrip ==
    (pc = "to_bytes" /\ Len(bytes) > 0) => key = Ok(bytes)

\* A 33-byte buffer that made the round trip.
C4_Witness == pc = "to_bytes" /\ Len(bytes) = 33 /\ key = Ok(bytes)

\* C5: get_share with n <= t returns ShareNumErr, whatever the passphrase,
\* and has built no share.
C5_ShareNumErrFirst ==
    (pc = "get_share" /\ num_shares_to_create <= required_num_shares_to_recover) =>
        /\ shares = Err(<<"ShareNumErr">>)
        /\ share_passphrases = <<>>

\* n = t on a 13-word passphrase, whose shares from_bytes would reject.
C5_Witness ==
    /\ pc = "get_share"
    /\ Len(words) = 13
    /\ num_shares_to_create = 2
    /\ required_num_shares_to_recover = 2
    /\ shares = Err(<<"ShareNumErr">>)

\* Two of the parsed shares have the same identifier byte, or two have
\* different lengths.
DegenerateShares ==
    /\ IsOk(restore_shares)
    /\ \E i, j \in 1..Len(restore_shares.val) :
          \/ i # j /\ restore_shares.val[i].x = restore_shares.val[j].x
          \/ Len(restore_shares.val[i].y) # Len(restore_shares.val[j].y)

\* C6: restore_from_share returns an error whenever two of the supplied
\* shares have the same identifier or different lengths.
C6_DegenerateSharesRejected ==
    (RestoreCalled /\ DegenerateShares) => ~IsOk(restored)

\* C7: from_words fails with InvalidNumOfWord exactly when the count is not
\* 12, 13, 24 or 25, with InvalidWord exactly when the count is one of these
\* and some word is not in the list, and otherwise succeeds with checksum
\* size 4, 7, 8 or 11.
C7_FromWordsClassifies ==
    WordsParsed =>
        LET count == Len(words)
            goodCount == count \in {12, 13, 24, 25}
            allKnown == \A i \in 1..count : words[i] \in DictionaryWords
        IN  /\ passphrase.tag \in {"Ok", "Err"}
            /\ (passphrase.err = <<"InvalidNumOfWord">>) <=> ~goodCount
            /\ (passphrase.err = <<"InvalidWord">>) <=> (goodCount /\ ~allKnown)
            /\ IsOk(passphrase) <=> (goodCount /\ allKnown)
            /\ IsOk(passphrase) =>
                  /\ Len(passphrase.val.word_indexs) = count
                  /\ passphrase.val.checksum_size =
                        (CASE count = 12 -> 4 [] count = 13 -> 7
                           [] count = 24 -> 8 [] count = 25 -> 11)

\* 26 words, one of them unknown: the count decides.
C7_Witness ==
    /\ pc = "from_words"
    /\ Len(words) = 26
    /\ \E i \in 1..Len(words) : words[i] \notin DictionaryWords
    /\ passphrase = Err(<<"InvalidNumOfWord">>)

\* C8: a successful get_share on a 12- or 24-word passphrase returns n word
\* sequences, each one word longer than the passphrase.
C8_SharesCountAndLength ==
    (IsOk(shares) /\ Len(words) \in {12, 24}) =>
        /\ Len(shares.val) = num_shares_to_create
        /\ \A i \in 1..Len(shares.val) : Len(shares.val[i]) = Len(words) + 1

\* Three shares of 25 words.
C8_Witness ==
    /\ pc = "get_share"
    /\ IsOk(shares)
    /\ Len(words) = 24
    /\ num_shares_to_create = 3
    /\ \A i \in 1..3 : Len(shares.val[i]) = 25

\* C9: get_share with n > t on a 13- or 25-word passphrase returns an error,
\* and restore_from_share on 12- or 24-word sequences returns an error.
C9_OtherLengthsFail ==
    /\ (/\ ShareCalled
        /\ Len(words) \in {13, 25}
        /\ num_shares_to_create > required_num_shares_to_recover) => ~IsOk(shares)
    /\ (/\ RestoreCalled
        /\ Len(shares_words) >= 1
        /\ \A i \in 1..Len(shares_words) : Len(shares_words[i]) \in {12, 24})
            => ~IsOk(restored)

\* Two 12-word sequences with different first bytes: the shares are
\* recovered to 15 bytes, which from_bytes rejects.
C9_Witness ==
    /\ pc = "restore"
    /\ Len(shares_words) = 2
    /\ \A i \in 1..2 : Len(shares_words[i]) = 12
    /\ IsOk(restore_shares)
    /\ restored = Err(<<"PassphaseErr", "Unexpected">>)

\* A share passphrase of 13 words and the passphrase restored from shares.
C10_Witness ==
    /\ pc = "restore"
    /\ IsOk(restored)
    /\ Len(shares_words) = 2
    /\ Cardinality(BuiltByLastCall) = 3
    /\ \E p \in BuiltByLastCall : Len(p.word_indexs) = 13
    /\ \E p \in BuiltByLastCall : Len(p.word_indexs) = 12

====
